---------------------------- MODULE Spec2Model ----------------------------
(***************************************************************************)
(* A model of the WebMO REST client (src/webmo/webmo_rest.py, class        *)
(* WebMOREST): the session token acquired by the constructor and revoked   *)
(* by the destructor, the REST calls that attach it, the job poller        *)
(* wait_for_jobs, and the render bridge of display_job_property with its   *)
(* websocket callback listener and bounded wait.                           *)
(*                                                                         *)
(* Python attributes keep their names without the leading underscore       *)
(* (self._auth is auth).  An attribute that was never assigned is absent   *)
(* from attrs, and reading it raises AttributeError.                       *)
(***************************************************************************)
EXTENDS Integers, Sequences, FiniteSets, TLC

VARIABLES
    has_ipython,    \* module global set by the IPython import (lines 5-9)
    transport,      \* TRUE while requests.delete is not None (line 56)
    obj,            \* "none", "live", "broken" (__init__ raised), "deleted"
    attrs,          \* the attributes assigned on self so far
    auth,           \* self._auth: the session document, a dict
    init_javascript,    \* self._init_javascript
    callback_listener,  \* self._callback_listener: "None", "open", "closed"
    reqLog,         \* the first MaxLog HTTP requests issued, abridged
    lastReq,        \* the HTTP request issued most recently
    raised,         \* the exception the last operation ended with, or "none"
    issued,         \* service side: the token handed out to this client
    touched,        \* whether anything happened to the client since __init__
    \* the job service and one wait_for_jobs call
    remote,         \* service side: each job's jobStatus
    wpc,            \* where the wait_for_jobs call is
    job_numbers,    \* its argument, a list
    status,         \* its local dict: the status last observed per job
    done,           \* its local flag
    idx,            \* the position of its for loop in job_numbers
    polled,         \* the jobs queried so far in the current round, in order
    \* the render bridge: display_job_property called by the coroutines Callers
    callback_port,  \* self._callback_port
    websocket_response_queue,   \* self._websocket_response_queue
    rpc,            \* per caller: "idle", "bind" (await serve), "await" (line 812)
    locals,         \* per caller: its latest call's number and arguments
    tick,           \* per caller: the sleeps completed in the loop of line 811
    seenAt,         \* per caller: its tick when the queue first held a message
    outcome,        \* per caller: how its last call ended
    dispatched,     \* the commands last pushed to the display surface
    inBrowser,      \* display side: the requests not yet answered
    calls,          \* the render calls started so far
    arrivals,       \* the messages the listener received so far
    version,        \* service side: the major version GET /status reports
    versionChecks,  \* the times _inject_javascript asked for the version
    pushes,         \* display side: the times the control code was injected
    listeners,      \* the listeners serve() created for this client
    clientB,        \* another WebMOREST object of the same process
    binding,        \* per caller: the port its pending serve() was given
    bound,          \* the ports on which a listener of this client accepts
    \* the decoding of a message and the helpers of util.py
    image_bytes,    \* display side: the bytes of the screenshot
    json_msg,       \* the message _process_callback_response popped
    decoded,        \* what lines 823-829 made of it
    results,        \* util.get_energy: the result document passed
    energy,         \* util.get_energy: what the call ended with
    generated       \* generate_input: the mappings passed, sent and left

sessionVars == <<has_ipython, transport, obj, attrs, auth, init_javascript,
                 callback_listener, reqLog, lastReq, raised, issued, touched>>

waitVars == <<remote, wpc, job_numbers, status, done, idx, polled>>

renderVars == <<callback_port, websocket_response_queue, rpc, locals, tick,
                seenAt, outcome, dispatched, inBrowser, calls, arrivals,
                version, versionChecks, pushes, listeners, clientB,
                binding, bound>>

utilVars == <<image_bytes, json_msg, decoded, results, energy, generated>>

vars == <<sessionVars, waitVars, renderVars, utilVars>>

-----------------------------------------------------------------------------
(* Bounds *)

\* The longest screenshot, in bytes.
MaxLen == 3

\* Requests kept in reqLog; later requests are still issued, not recorded.
MaxLog == 3

\* The longest job list handed to wait_for_jobs.
MaxJobs == 2

\* The render calls started on one client.
MaxCalls == 2

-----------------------------------------------------------------------------
(* The remote service and the inputs *)

\* Session tokens the service may hand out at POST /sessions.
Tokens == {"t1", "t2"}

\* The value a caller passes for a credential-named keyword argument.
Forged == "forged"

\* The session document r.json() of POST /sessions; no token before that.
SessionDoc(t) == [token |-> t]

NoAuth == [token |-> ""]

EmptyDict == [k \in {} |-> ""]

\* dict.update / {**a, **b}: the right operand wins on a shared key.
DictUpdate(d, e) ==
    [k \in (DOMAIN d) \cup (DOMAIN e) |-> IF k \in DOMAIN e THEN e[k] ELSE d[k]]

\* A dict with the given keys, each bound to an argument value.
Args(keys) == [k \in keys |-> "arg"]

\* What a request carries in the place of the session token.
TokenOf(params) == IF "token" \in DOMAIN params THEN params["token"] ELSE ""

Req(method, path, params) ==
    [method |-> method, path |-> path, token |-> TokenOf(params)]

NoReq == [method |-> "", path |-> "", token |-> ""]

\* What reqLog keeps of a request: the method, whether the path is the
\* sessions resource, and the token.
Abridged(r) ==
    [method |-> r.method,
     path |-> IF r.path = "/sessions" THEN r.path ELSE "/*",
     token |-> r.token]

\* Record requests: requests.get / post / delete were called with each of
\* rs, in this order.
IssueAll(rs) ==
    /\ reqLog' = SubSeq(reqLog \o [i \in DOMAIN rs |-> Abridged(rs[i])],
                        1, IF Len(reqLog) + Len(rs) < MaxLog
                           THEN Len(reqLog) + Len(rs) ELSE MaxLog)
    /\ lastReq' = IF rs = <<>> THEN lastReq ELSE rs[Len(rs)]

Issue(r) == IssueAll(<<r>>)

-----------------------------------------------------------------------------
(* Construction and teardown *)

\* The attributes __init__ assigns once the credential exchange succeeded.
InitAttrs ==
    {"base_url", "auth"} \cup
    (IF has_ipython THEN {"init_javascript", "callback_listener"} ELSE {})

\* WebMOREST.__init__: POST /sessions with the login; net_ok is whether the
\* endpoint answers, cred_ok whether it accepts the credentials, t the token
\* it hands out.  A failure raises out of __init__ before any assignment.
Construct(net_ok, cred_ok, t) ==
    /\ obj = "none"
    /\ transport
    /\ Issue(Req("POST", "/sessions", Args({"username", "password"})))
    /\ touched' = FALSE
    /\ IF net_ok /\ cred_ok
       THEN /\ obj' = "live"
            /\ attrs' = InitAttrs
            /\ auth' = SessionDoc(t)
            /\ issued' = t
            /\ init_javascript' = (IF has_ipython THEN TRUE ELSE init_javascript)
            /\ raised' = "none"
       ELSE /\ obj' = "broken"
            /\ raised' = (IF net_ok THEN "HTTPError" ELSE "ConnectionError")
            /\ UNCHANGED <<attrs, auth, issued, init_javascript>>
    /\ UNCHANGED <<has_ipython, transport, callback_listener>>
    /\ UNCHANGED <<waitVars, renderVars, utilVars>>

\* The host process releases the requests module (interpreter shutdown):
\* from then on requests.delete is None.
ReleaseTransport ==
    /\ obj \in {"live", "broken"}
    /\ transport
    /\ transport' = FALSE
    /\ touched' = TRUE
    /\ UNCHANGED <<has_ipython, obj, attrs, auth, init_javascript,
                   callback_listener, reqLog, lastReq, raised, issued>>
    /\ UNCHANGED <<waitVars, renderVars, utilVars>>

\* The check of line 56 the wrong way round.
DelReadsSessionInverted == ~transport

\* Line 57 is reached with requests.delete present; it reads self._base_url
\* and self._auth.
DelReadsSession == transport

\* The exception __del__ ends with; revoke is how DELETE /sessions ends:
\* "ok", "http_error" (an error status, not raised for) or "conn_error".
DelRaises(revoke) ==
    IF DelReadsSession /\ ~({"base_url", "auth"} \subseteq attrs)
    THEN "AttributeError"
    ELSE IF DelReadsSession /\ revoke = "conn_error"
    THEN "ConnectionError"
    ELSE IF "callback_listener" \notin attrs
    THEN "AttributeError"
    ELSE "none"

\* The reads of line 57 never fail: the revoke goes out whenever
\* requests.delete is present.
DelIssuesRevokeUnchecked == DelReadsSession

\* Whether __del__ gets as far as calling requests.delete.
DelIssuesRevoke == DelReadsSession /\ {"base_url", "auth"} \subseteq attrs

\* WebMOREST.__del__.
Del(revoke) ==
    /\ obj \in {"live", "broken"}
    /\ wpc \notin {"while", "for", "sleep"}
    /\ \A c \in DOMAIN rpc : rpc[c] = "idle"
    /\ obj' = "deleted"
    /\ raised' = DelRaises(revoke)
    /\ IF DelIssuesRevoke
       THEN Issue(Req("DELETE", "/sessions", auth))
       ELSE UNCHANGED <<reqLog, lastReq>>
    /\ callback_listener' =
          IF DelRaises(revoke) = "none" /\ callback_listener = "open"
          THEN "closed" ELSE callback_listener
    /\ UNCHANGED <<has_ipython, transport, attrs, auth, init_javascript,
                   issued, touched>>
    /\ UNCHANGED <<waitVars, renderVars, utilVars>>

-----------------------------------------------------------------------------
(* The REST calls *)

\* The calls that pass params=self._auth as it is, with method and path.
PlainOps ==
    { <<"get_users", "GET", "/users">>,
      <<"get_user_info", "GET", "/users/%s">>,
      <<"get_groups", "GET", "/groups">>,
      <<"get_group_info", "GET", "/groups/%s">>,
      <<"get_job_info", "GET", "/jobs/%d">>,
      <<"get_job_geometry", "GET", "/jobs/%d/geometry">>,
      <<"get_job_output", "GET", "/jobs/%d/raw_output">>,
      <<"delete_job", "DELETE", "/jobs/%d">>,
      <<"get_templates", "GET", "/templates/%s">>,
      <<"get_status_info", "GET", "/status">> }

\* The calls that copy self._auth and update the copy with their own keys.
ParamOps ==
    { <<"get_folders", "GET", "/folders", {"user"}>>,
      <<"get_jobs", "GET", "/jobs",
        {"engine", "status", "folderID", "jobName", "user"}>>,
      <<"import_job", "POST", "/jobs", {"jobName", "engine"}>>,
      <<"generate_input", "GET", "/templates/%s", {"variables"}>>,
      <<"get_engines", "GET", "/engines", {"user"}>> }

\* The calls that take *job_numbers, with the path for several jobs.
JobListOps ==
    { <<"get_job_results", "/jobs/results">>,
      <<"get_job_archive", "/jobs/archive">>,
      <<"get_job_spreadsheet", "/jobs/spreadsheet">> }

\* The **kwargs a caller may pass to submit_job: none, a documented extra
\* field, or a field named like one of the session document.
KwargsChoices ==
    { EmptyDict, [nodeType |-> "arg"], [token |-> Forged] }

\* self._auth after a call that built params from self._auth.copy().
AuthAfterCopy(extra) == auth

\* How a call ends once its request is out: r.raise_for_status().
CallEnds(ok) == IF ok THEN "none" ELSE "HTTPError"

\* The frame of a call on a live client.
CallFrame ==
    /\ touched' = TRUE
    /\ UNCHANGED <<has_ipython, transport, obj, attrs, init_javascript,
                   callback_listener, issued>>
    /\ UNCHANGED <<waitVars, renderVars, utilVars>>

\* A call that issues one request with self._auth as its parameters.
PlainCall(op, ok) ==
    /\ obj = "live" /\ transport
    /\ op \in PlainOps
    /\ Issue(Req(op[2], op[3], auth))
    /\ raised' = CallEnds(ok)
    /\ auth' = auth
    /\ CallFrame

\* params = self._auth.copy(); params.update({...}); one request.
ParamCall(op, ok) ==
    /\ obj = "live" /\ transport
    /\ op \in ParamOps
    /\ Issue(Req(op[2], op[3], DictUpdate(auth, Args(op[4]))))
    /\ raised' = CallEnds(ok)
    /\ auth' = AuthAfterCopy(Args(op[4]))
    /\ CallFrame

\* get_job_results, get_job_archive, get_job_spreadsheet with n job numbers:
\* _check_valid_job_list raises ValueError for none, before any request;
\* get_job_results asks for a single job with self._auth as it is.
JobListCall(op, n, ok) ==
    /\ obj = "live" /\ transport
    /\ op \in JobListOps
    /\ IF n = 0
       THEN /\ raised' = "ValueError"
            /\ UNCHANGED <<reqLog, lastReq>>
       ELSE /\ raised' = CallEnds(ok)
            /\ IF n = 1 /\ op[1] = "get_job_results"
               THEN Issue(Req("GET", "/jobs/%d/results", auth))
               ELSE Issue(Req("GET", op[2],
                              DictUpdate(auth, Args({"jobNumber"}))))
    /\ auth' = AuthAfterCopy(Args({"jobNumber"}))
    /\ CallFrame

\* The parameters submit_job posts: the copy of self._auth updated with the
\* job's fields and then with the caller's **kwargs.
SubmitParams(kw) ==
    DictUpdate(auth,
        DictUpdate(Args({"jobName", "engine", "inputFile", "queue", "nodes",
                         "ppn"}), kw))

\* submit_job(job_name, input_file_contents, engine, ..., **kwargs).
SubmitJob(kw, ok) ==
    /\ obj = "live" /\ transport
    /\ kw \in KwargsChoices
    /\ Issue(Req("POST", "/jobs", SubmitParams(kw)))
    /\ raised' = CallEnds(ok)
    /\ auth' = AuthAfterCopy(kw)
    /\ CallFrame

-----------------------------------------------------------------------------
(* The job service and wait_for_jobs *)

Jobs == {101, 102}

\* The jobStatus values the service reports; "Complete" stands for a value
\* that is neither of the two the poller compares with.
StatusValues == {"queued", "running", "complete", "failed", "Complete"}

\* The statuses a job may move to on the service; a finished job stays.
NextStatus(s) ==
    CASE s = "queued" -> {"running"}
      [] s = "running" -> {"complete", "failed", "Complete"}
      [] OTHER -> {}

\* The service moves job j on.
ServiceStep(j) ==
    /\ \E s \in NextStatus(remote[j]) : remote' = [remote EXCEPT ![j] = s]
    /\ UNCHANGED <<wpc, job_numbers, status, done, idx, polled>>
    /\ UNCHANGED <<sessionVars, renderVars, utilVars>>

Range(seq) == {seq[i] : i \in DOMAIN seq}

\* The comparison ignores case.
IsTerminalAnyCase(s) == s \in {"complete", "failed", "Complete"}

\* Lines 655 and 657: status[job_number] is 'complete' or 'failed'.
IsTerminal(s) == s = "complete" \/ s = "failed"

\* Every job of the list is queried in every round.
NeedsQueryAlways(s) == TRUE

\* Line 655: the job is queried when its last observed status is not terminal.
NeedsQuery(s) == ~IsTerminal(s)

\* Line 653: the flag at the start of a round.
DoneAtRoundStart == TRUE

\* The flag is never cleared.
DoneAfterSticky(d, s) == d

\* Lines 657-658: the flag after observing status s.
DoneAfter(d, s) == IF ~IsTerminal(s) THEN FALSE ELSE d

\* Line 659: whether the round is followed by a sleep.
SleepsAfterRound(d) == ~d

WaitFrame ==
    /\ UNCHANGED <<has_ipython, transport, obj, attrs, auth, init_javascript,
                   callback_listener, issued, remote>>
    /\ UNCHANGED <<renderVars, utilVars>>

\* Lines 646-650: wait_for_jobs(js) (wait_for_job passes a list of one).
WaitStart(js) ==
    /\ obj = "live" /\ transport
    /\ wpc \in {"idle", "returned", "raised"}
    /\ wpc' = "while"
    /\ job_numbers' = js
    /\ status' = [j \in Range(js) |-> ""]
    /\ done' = FALSE
    /\ idx' = 0
    /\ polled' = <<>>
    /\ touched' = TRUE
    /\ raised' = "none"
    /\ UNCHANGED <<reqLog, lastReq>>
    /\ WaitFrame

\* Lines 652-653: the while test, and the start of a round.
WhileTest ==
    /\ wpc = "while"
    /\ IF done
       THEN /\ wpc' = "returned"
            /\ UNCHANGED <<done, idx, polled>>
       ELSE /\ wpc' = "for"
            /\ done' = DoneAtRoundStart
            /\ idx' = 1
            /\ polled' = <<>>
    /\ UNCHANGED <<job_numbers, status, reqLog, lastReq, raised, touched>>
    /\ WaitFrame

\* Lines 654-658: one iteration of the for loop; ok is whether get_job_info
\* succeeds, and it answers with the job's status on the service.
ForStep(ok) ==
    /\ wpc = "for"
    /\ idx <= Len(job_numbers)
    /\ LET j == job_numbers[idx] IN
       IF NeedsQuery(status[j])
       THEN /\ Issue(Req("GET", "/jobs/%d", auth))
            /\ polled' = Append(polled, j)
            /\ IF ok
               THEN /\ status' = [status EXCEPT ![j] = remote[j]]
                    /\ done' = DoneAfter(done, remote[j])
                    /\ idx' = idx + 1
                    /\ UNCHANGED <<wpc, raised>>
               ELSE /\ wpc' = "raised"
                    /\ raised' = "HTTPError"
                    /\ UNCHANGED <<status, done, idx>>
       ELSE /\ idx' = idx + 1
            /\ UNCHANGED <<wpc, status, done, polled, reqLog, lastReq, raised>>
    /\ UNCHANGED <<job_numbers, touched>>
    /\ WaitFrame

\* Lines 659-660: the end of a round.
EndRound ==
    /\ wpc = "for"
    /\ idx > Len(job_numbers)
    /\ wpc' = IF SleepsAfterRound(done) THEN "sleep" ELSE "while"
    /\ UNCHANGED <<job_numbers, status, done, idx, polled, reqLog, lastReq,
                   raised, touched>>
    /\ WaitFrame

\* sleep(poll_frequency) returns.
Wake ==
    /\ wpc = "sleep"
    /\ wpc' = "while"
    /\ UNCHANGED <<job_numbers, status, done, idx, polled, reqLog, lastReq,
                   raised, touched>>
    /\ WaitFrame

-----------------------------------------------------------------------------
(* The render bridge: the command display_job_property builds *)

\* The coroutines that may call display_job_property on the client.
Callers == {1, 2}

\* TIMEOUT of _process_callback_response.
TIMEOUT == 60

\* The first major version of the service that supports rendering.
MinMajorVersion == 24

WAVEFUNCTION_PROPERTIES ==
    {"mo", "nao", "nho", "nbo", "esp", "nucleophilic", "electrophilic",
     "radical"}

SURFACE_PROPERTIES == {"esp", "nucleophilic", "electrophilic", "radical"}

VibrationalSpectra == {"ir_spectrum", "raman_spectrum", "vcd_spectrum"}

NmrSpectra == {"hnmr_spectrum", "cnmr_spectrum"}

\* The names with a branch of their own in lines 497-577.
PropertyNames ==
    {"geometry", "dipole_moment", "partial_charges", "vibrational_mode",
     "uvvis_spectrum"}
    \cup WAVEFUNCTION_PROPERTIES \cup VibrationalSpectra \cup NmrSpectra

\* property_name.endswith("spectrum"), over the names a caller passes here.
EndsWithSpectrum(name) ==
    name \in VibrationalSpectra \cup NmrSpectra \cup {"uvvis_spectrum"}

\* One command of the javascript string; index is the integer argument that
\* stems from property_index, NoIndex when the command takes none.
NoIndex == 0 - 1

Cmd(fn, index) == [fn |-> fn, index |-> index]

\* Lines 487-489.
Preamble ==
    << Cmd("_set_moledit_size", NoIndex),
       Cmd("_set_moledit_background", NoIndex),
       Cmd("_set_moledit_geometry", NoIndex) >>

\* Line 524 is missing: the surfaces are drawn with the caller's index.
WavefunctionIndexUnforced(name, property_index) == property_index

\* Lines 523-524: the index passed on to _set_moledit_wavefunction.
WavefunctionIndex(name, property_index) ==
    IF name \in SURFACE_PROPERTIES THEN 0 ELSE property_index

\* Lines 497-577: the commands of the property's own branch; opts are the
\* call's keyword arguments that select a branch.
PropertyCommands(name, property_index, opts) ==
    CASE name = "geometry" -> <<>>
      [] name = "dipole_moment" ->
            <<Cmd("_set_moledit_dipole_moment", NoIndex)>>
      [] name = "partial_charges" ->
            <<Cmd("_set_moledit_partial_charge", NoIndex)>>
      [] name = "vibrational_mode" ->
            <<Cmd("_set_moledit_vibrational_mode", property_index)>>
      [] name \in WAVEFUNCTION_PROPERTIES ->
            << Cmd("_rotate_moledit_view", NoIndex),
               Cmd("_set_moledit_wavefunction",
                   WavefunctionIndex(name, property_index)) >>
      [] name = "ir_spectrum" ->
            <<Cmd("_set_datagrapher_ir_spectrum", NoIndex)>>
      [] name = "raman_spectrum" ->
            <<Cmd("_set_datagrapher_raman_spectrum", NoIndex)>>
      [] name = "vcd_spectrum" ->
            <<Cmd("_set_datagrapher_vcd_spectrum", NoIndex)>>
      [] name = "uvvis_spectrum" ->
            <<Cmd("_set_datagrapher_uvvis_spectrum", NoIndex)>>
      [] name \in NmrSpectra ->
            IF name = "hnmr_spectrum" /\ opts.proton_coupling
            THEN <<Cmd("_set_datagrapher_h1nmr_spectrum", NoIndex)>>
            ELSE <<Cmd("_set_datagrapher_nmr_spectrum", NoIndex)>>
      [] OTHER -> <<>>

\* The test of line 582 is missing: every kind gets its screenshot command.
ScreenshotCommandsAlways(name, opts) ==
    IF EndsWithSpectrum(name)
    THEN (IF opts.x_range THEN <<Cmd("_set_x_range", NoIndex)>> ELSE <<>>)
         \o (IF opts.y_range THEN <<Cmd("_set_y_range", NoIndex)>> ELSE <<>>)
         \o <<Cmd("_display_datagrapher_screenshot", NoIndex)>>
    ELSE << Cmd("_rotate_moledit_view", NoIndex),
            Cmd("_display_moledit_screenshot", NoIndex) >>

\* Lines 582-591: the range and screenshot commands.
ScreenshotCommands(name, opts) ==
    IF name \in WAVEFUNCTION_PROPERTIES
    THEN <<>>
    ELSE IF EndsWithSpectrum(name)
    THEN (IF opts.x_range THEN <<Cmd("_set_x_range", NoIndex)>> ELSE <<>>)
         \o (IF opts.y_range THEN <<Cmd("_set_y_range", NoIndex)>> ELSE <<>>)
         \o <<Cmd("_display_datagrapher_screenshot", NoIndex)>>
    ELSE << Cmd("_rotate_moledit_view", NoIndex),
            Cmd("_display_moledit_screenshot", NoIndex) >>

\* The javascript string handed to display(Javascript(...)) in line 594.
JavascriptString(name, property_index, opts) ==
    Preamble \o PropertyCommands(name, property_index, opts)
             \o ScreenshotCommands(name, opts)

\* The keyword arguments that select a branch: whether proton_coupling > 0,
\* whether x_range and y_range are given.
DefaultOpts == [proton_coupling |-> FALSE, x_range |-> FALSE, y_range |-> FALSE]

-----------------------------------------------------------------------------
(* The message of the display surface and its decoding *)

\* Characters are numbers: 0..63 are the characters of the base64 alphabet
\* by their value, then '=', ',' and a character outside the alphabet.
Sextets == 0..63

Pad == 63 + 1

Comma == 63 + 2

Colon == 63 + 3

\* The byte values tried.
Bytes == {0, 77, 170, 255}

RECURSIVE SeqsUpTo(_, _)
\* The sequences over S of length n at most.
SeqsUpTo(S, n) ==
    IF n = 0 THEN {<<>>}
    ELSE LET shorter == SeqsUpTo(S, n - 1)
         IN shorter \cup {Append(q, x) : q \in {r \in shorter : Len(r) = n - 1},
                                         x \in S}

RECURSIVE B64Encode(_)
\* The base64 text of the bytes b (RFC 4648, with padding), as the display
\* surface's toDataURL produces it.
B64Encode(b) ==
    IF Len(b) = 0 THEN <<>>
    ELSE IF Len(b) = 1
    THEN << b[1] \div 4, (b[1] % 4) * 16, Pad, Pad >>
    ELSE IF Len(b) = 2
    THEN << b[1] \div 4, (b[1] % 4) * 16 + b[2] \div 16, (b[2] % 16) * 4, Pad >>
    ELSE << b[1] \div 4, (b[1] % 4) * 16 + b[2] \div 16,
            (b[2] % 16) * 4 + b[3] \div 64, b[3] % 64 >>
         \o B64Encode(SubSeq(b, 4, Len(b)))

\* A decoding step's result: the exception, or "none" and the bytes.
Decoded(exc, data) == [exc |-> exc, data |-> data]

NoResult == Decoded("pending", <<>>)

RECURSIVE A2bBase64(_, _, _, _, _, _)
\* Line 827: b64decode(s) without validation, from position i on; quad is
\* the position in the group of four, pads the '=' seen in a row, left the
\* bits not yet written, out the bytes written.  Characters outside the
\* alphabet are skipped, a complete padding ends the decoding, and an
\* incomplete group at the end raises binascii.Error.
A2bBase64(s, i, quad, pads, left, out) ==
    IF i > Len(s)
    THEN IF quad # 0 THEN Decoded("binascii.Error", <<>>)
         ELSE Decoded("none", out)
    ELSE IF s[i] = Pad
    THEN IF quad >= 2 /\ quad + pads + 1 >= 4
         THEN Decoded("none", out)
         ELSE A2bBase64(s, i + 1, quad,
                        IF quad >= 2 THEN pads + 1 ELSE pads, left, out)
    ELSE IF s[i] \notin Sextets
    THEN A2bBase64(s, i + 1, quad, pads, left, out)
    ELSE CASE quad = 0 -> A2bBase64(s, i + 1, 1, 0, s[i], out)
           [] quad = 1 -> A2bBase64(s, i + 1, 2, 0, s[i] % 16,
                                    Append(out, left * 4 + s[i] \div 16))
           [] quad = 2 -> A2bBase64(s, i + 1, 3, 0, s[i] % 4,
                                    Append(out, left * 16 + s[i] \div 4))
           [] quad = 3 -> A2bBase64(s, i + 1, 0, 0, 0,
                                    Append(out, left * 64 + s[i]))

B64Decode(s) == A2bBase64(s, 1, 0, 0, 0, <<>>)

\* The positions of the commas in s.
Commas(s) == {i \in DOMAIN s : s[i] = Comma}

Min(S) == CHOOSE x \in S : \A y \in S : x <= y

\* split(",", 2)[0]: the text before the first comma.
SplitPiece0(s) ==
    Decoded("none",
            IF Commas(s) = {} THEN s ELSE SubSeq(s, 1, Min(Commas(s)) - 1))

\* Line 826: split(",", 2)[1], the text between the first comma and the
\* second one (or the end); IndexError without a comma.
SplitPiece1(s) ==
    IF Commas(s) = {} THEN Decoded("IndexError", <<>>)
    ELSE LET first == Min(Commas(s))
             later == {i \in Commas(s) : i > first}
         IN Decoded("none",
                    SubSeq(s, first + 1,
                           IF later = {} THEN Len(s) ELSE Min(later) - 1))

\* A message: whether it is JSON text, whether the object has the key
\* imageURI, and the characters of that value.
Message(is_json, has_key, uri) ==
    [is_json |-> is_json, has_key |-> has_key, uri |-> uri]

\* No message popped yet: json_msg holds the popped message, if any.
NoMessage == <<>>

\* The metadata prefixes tried: none, and one with a character of the
\* alphabet and one outside it (as in data:image/png;base64).
Prefixes == {<<>>, <<3, Colon, 29>>}

\* The message the display surface sends for a screenshot of bytes b.
ImageMessage(prefix, b) ==
    Message(TRUE, TRUE, prefix \o <<Comma>> \o B64Encode(b))

\* Lines 823-829: json.loads, ['imageURI'], split, b64decode and the
\* EmbeddedImage holding the bytes.
Decode(msg) ==
    IF ~msg.is_json THEN Decoded("JSONDecodeError", <<>>)
    ELSE IF ~msg.has_key THEN Decoded("KeyError", <<>>)
    ELSE IF SplitPiece1(msg.uri).exc # "none" THEN SplitPiece1(msg.uri)
    ELSE B64Decode(SplitPiece1(msg.uri).data)

\* The payloads the display surface may send: a well-formed one, and ones
\* that are not JSON, lack imageURI, lack the comma, or are not base64
\* (a group cut short, or characters outside the alphabet).
MessageKinds == {"png", "notjson", "nokey", "nocomma", "badb64", "nonalpha"}

MalformedKinds == MessageKinds \ {"png"}

\* A message of the kind for a screenshot of bytes b.
MessageOfKind(kind, prefix, b) ==
    CASE kind = "png" -> ImageMessage(prefix, b)
      [] kind = "notjson" -> Message(FALSE, FALSE, <<>>)
      [] kind = "nokey" -> Message(TRUE, FALSE, <<>>)
      [] kind = "nocomma" -> Message(TRUE, TRUE, prefix \o B64Encode(b))
      [] kind = "badb64" ->
            Message(TRUE, TRUE, prefix \o <<Comma>>
                                \o SubSeq(B64Encode(b), 1, Len(B64Encode(b)) - 1))
      [] kind = "nonalpha" ->
            Message(TRUE, TRUE, prefix \o <<Comma, Colon>> \o B64Encode(b))

\* The message of the kind the render bridge's model delivers.
SampleMessage(kind) == MessageOfKind(kind, <<>>, <<77>>)

\* The display surface holds a screenshot and sends it.
Encode(prefix) ==
    /\ json_msg = NoMessage
    /\ json_msg' = <<ImageMessage(prefix, image_bytes)>>
    /\ UNCHANGED <<image_bytes, decoded, results, energy, generated>>
    /\ UNCHANGED <<sessionVars, waitVars, renderVars>>

\* The display surface sends something else for it.
Malformed(kind, prefix) ==
    /\ json_msg = NoMessage
    /\ kind = "badb64" => Len(image_bytes) > 0
    /\ json_msg' = <<MessageOfKind(kind, prefix, image_bytes)>>
    /\ UNCHANGED <<image_bytes, decoded, results, energy, generated>>
    /\ UNCHANGED <<sessionVars, waitVars, renderVars>>

\* Lines 823-829 run on the message.
DecodeStep ==
    /\ json_msg # NoMessage
    /\ decoded = NoResult
    /\ decoded' = Decode(json_msg[1])
    /\ UNCHANGED <<image_bytes, json_msg, results, energy, generated>>
    /\ UNCHANGED <<sessionVars, waitVars, renderVars>>

-----------------------------------------------------------------------------
(* generate_input *)

\* The names of the template variables tried.
VariableNames == {"basis", "charge", "theory"}

\* The dictionaries with keys among K and values among V.
Dicts(K, V) == UNION {[S -> V] : S \in SUBSET K}

\* The test of line 404 is missing: every default is written.
AmendVariablesOverwriting(variables, defaults, auto_defaults) ==
    IF auto_defaults
    THEN [var \in DOMAIN variables \cup DOMAIN defaults |->
            IF var \in DOMAIN defaults THEN defaults[var] ELSE variables[var]]
    ELSE variables

\* Lines 400-405: amend_variables, the copy of the caller's mapping with
\* the default of every template variable the caller's mapping lacks;
\* defaults maps each variable of template['variables'] to its 'default'.
AmendVariables(variables, defaults, auto_defaults) ==
    IF auto_defaults
    THEN [var \in DOMAIN variables
                  \cup {v \in DOMAIN defaults : v \notin DOMAIN variables} |->
            IF var \in DOMAIN variables THEN variables[var] ELSE defaults[var]]
    ELSE variables

\* Line 400: the loop writes to the copy, the caller's mapping stays.
VariablesAfter(variables, defaults, auto_defaults) == variables

\* Line 409: json.dumps writes one member per key of the dictionary.
JsonDumps(d) == {[key |-> k, value |-> d[k]] : k \in DOMAIN d}

\* One call of generate_input: the mapping and the template's defaults the
\* caller passes, and once the call is done the text sent as 'variables'
\* and the caller's mapping as the call left it.
Generated(variables, defaults, auto_defaults, ended, sent, after) ==
    [variables |-> variables, defaults |-> defaults,
     auto_defaults |-> auto_defaults, done |-> ended, sent |-> sent,
     after |-> after]

NoGenerated == Generated(<<>>, <<>>, FALSE, FALSE, {}, <<>>)

\* Lines 387-412.
GenerateInput(ok) ==
    /\ obj = "live" /\ transport
    /\ ~generated.done
    /\ Issue(Req("GET", "/templates/%s", DictUpdate(auth, Args({"variables"}))))
    /\ raised' = CallEnds(ok)
    /\ auth' = AuthAfterCopy(Args({"variables"}))
    /\ generated' =
          [generated EXCEPT
             !.done = TRUE,
             !.sent = JsonDumps(AmendVariables(generated.variables,
                                               generated.defaults,
                                               generated.auto_defaults)),
             !.after = VariablesAfter(generated.variables, generated.defaults,
                                      generated.auto_defaults)]
    /\ touched' = TRUE
    /\ UNCHANGED <<has_ipython, transport, obj, attrs, init_javascript,
                   callback_listener, issued>>
    /\ UNCHANGED <<image_bytes, json_msg, decoded, results, energy>>
    /\ UNCHANGED <<waitVars, renderVars>>

-----------------------------------------------------------------------------
(* util.get_energy *)

\* Text is a sequence of characters.  str.lower() on the characters used.
Lower(ch) ==
    CASE ch = "H" -> "h"
      [] ch = "F" -> "f"
      [] ch = "M" -> "m"
      [] ch = "P" -> "p"
      [] OTHER -> ch

\* Line 47: name.lower().replace(' ', '_') + '_energy'.
MethodEnergyName(name) ==
    [i \in DOMAIN name |-> IF Lower(name[i]) = " " THEN "_" ELSE Lower(name[i])]
        \o <<"_", "e", "n", "e", "r", "g", "y">>

\* The values of method_energy_name tried: "HF" and "MP 2".
MethodNames == {<<"H", "F">>, <<"M", "P", " ", "2">>}

\* Lines 51: the prefixes of the keys looked up, in the order of the list.
KeyPrefixes == << <<>>, <<"r">>, <<"u">>, <<"r", "o">> >>

\* One entry of results['properties']: a key with its value and units.
Property(key, value) == [key |-> key, value |-> value, units |-> "Hartree"]

\* The energies a document may hold: for each method and prefix one key,
\* each with a value of its own.
EnergyProperties ==
    { Property(KeyPrefixes[i] \o MethodEnergyName(name), Len(name) * 10 + i) :
        i \in DOMAIN KeyPrefixes, name \in MethodNames }

\* A results document: whether properties has method_energy_name, its
\* value, and the energies held.
Document(has_name, name, properties) ==
    [has_name |-> has_name, name |-> name, properties |-> properties]

NoDocument == Document(FALSE, <<>>, {})

Documents ==
    { Document(has_name, name, properties) :
        has_name \in BOOLEAN, name \in MethodNames,
        properties \in SUBSET EnergyProperties }

\* What get_energy ends with: the exception and the key its message names,
\* or the energy, with the units when include_units is set.
Energy(exc, names, value, units) ==
    [exc |-> exc, names |-> names, value |-> value, units |-> units]

NoEnergy == Energy("pending", <<>>, 0, "")

\* properties[key]
Lookup(properties, key) == CHOOSE e \in properties : e.key = key

HasKey(properties, key) == \E e \in properties : e.key = key

RECURSIVE EnergyLoop(_, _, _, _)
\* Lines 51-55: the loop over the four keys from the i-th on; found is the
\* entry assigned so far ({} when none).  Every key present assigns.
EnergyLoop(properties, base, i, found) ==
    IF i > Len(KeyPrefixes) THEN found
    ELSE EnergyLoop(properties, base, i + 1,
                    IF HasKey(properties, KeyPrefixes[i] \o base)
                    THEN {Lookup(properties, KeyPrefixes[i] \o base)}
                    ELSE found)

\* Lines 29-62.
get_energy(doc, include_units) ==
    IF ~doc.has_name
    THEN Energy("RuntimeError", <<"m", "e", "t", "h", "o", "d", "_", "e", "n",
                                  "e", "r", "g", "y", "_", "n", "a", "m", "e">>,
                0, "")
    ELSE LET method_energy_name == MethodEnergyName(doc.name)
             found == EnergyLoop(doc.properties, method_energy_name, 1, {})
         IN IF found = {}
            THEN Energy("RuntimeError", method_energy_name, 0, "")
            ELSE LET e == CHOOSE x \in found : TRUE
                 IN Energy("none", <<>>, e.value,
                           IF include_units THEN e.units ELSE "")

\* A caller asks for the energy of the document.
GetEnergy(include_units) ==
    /\ energy = NoEnergy
    /\ energy' = get_energy(results, include_units)
    /\ UNCHANGED <<image_bytes, json_msg, decoded, results, generated>>
    /\ UNCHANGED <<sessionVars, waitVars, renderVars>>

-----------------------------------------------------------------------------
(* The render bridge: injection, the listener, dispatch and the wait *)

\* The ports randint may pick in line 801.
Ports == {50001, 60000}

NoTick == 0 - 1

\* Lines 823-827: the exception decoding a payload of this kind ends with.
DecodeRaises(kind) == Decode(SampleMessage(kind)).exc

\* A call's arguments and what the service answers: fetch is "ok",
\* "geometry_fails" or "results_fails"; has_prop is whether the result
\* document holds what the property's branch looks up.
CallArgs(name, property_index, opts, fetch, has_prop) ==
    [name |-> name, index |-> property_index, opts |-> opts, fetch |-> fetch,
     has_prop |-> has_prop]

NoArgs == CallArgs("", 0, DefaultOpts, "", FALSE)

NoLocals == [id |-> 0, args |-> NoArgs]

\* How a call ended: kind is "none" (no call yet), "image", "timeout" (None
\* returned) or "raise"; req is the request the returned image answers.
Ended(kind, exc, req) == [kind |-> kind, exc |-> exc, req |-> req]

NoOutcome == Ended("none", "none", 0)

\* How an injection goes: whether GET /status succeeds, the major version
\* it reports, and whether run_cell_magic goes through.
Injection(status_ok, major, inject_ok) ==
    [status_ok |-> status_ok, major |-> major, inject_ok |-> inject_ok]

\* Line 473 and 667: _inject_javascript has something to do.
Injects == has_ipython /\ init_javascript

\* Lines 471-475: the exception _check_ipython and _inject_javascript end
\* with.
InjectRaises(inj) ==
    IF ~has_ipython THEN "NotImplementedError"
    ELSE IF Injects /\ ~inj.status_ok THEN "HTTPError"
    ELSE "none"

\* Line 668: the request of _inject_javascript.
InjectReqs ==
    IF Injects THEN <<Req("GET", "/status", auth)>> ELSE <<>>

\* Lines 672-675 and 723-724: the global after the injection.
HasIpythonAfter(inj) ==
    IF Injects /\ inj.status_ok
       /\ (inj.major < MinMajorVersion \/ ~inj.inject_ok)
    THEN FALSE ELSE has_ipython

\* Lines 677-721: run_cell_magic is reached and goes through.
Pushes(inj) ==
    /\ Injects /\ inj.status_ok
    /\ ~(inj.major < MinMajorVersion) /\ inj.inject_ok

\* The flag is left as it was.
InitJavascriptKept(inj) == init_javascript

\* Line 722: the flag after the injection.
InitJavascriptAfter(inj) ==
    IF Pushes(inj) THEN FALSE ELSE init_javascript

\* A listener is created by every call.
NeedsListenerAlways == TRUE

\* Line 477: the call has to create the listener.
NeedsListener == callback_listener = "None"

\* Lines 480-485: the requests for the geometry and the results.
FetchReqs(fetch) ==
    IF fetch = "geometry_fails"
    THEN <<Req("GET", "/jobs/%d/geometry", auth)>>
    ELSE << Req("GET", "/jobs/%d/geometry", auth),
            Req("GET", "/jobs/%d/results", auth) >>

\* The else branch of lines 579-580 is missing.
BuildRaisesAnyName(a) ==
    IF a.fetch # "ok" THEN "HTTPError"
    ELSE IF a.index <= 0 THEN "ValueError"
    ELSE IF ~a.has_prop /\ a.name \notin WAVEFUNCTION_PROPERTIES \cup {"geometry"}
    THEN "KeyError"
    ELSE "none"

\* Lines 480-580: the exception building the command ends with.
BuildRaises(a) ==
    IF a.fetch # "ok" THEN "HTTPError"
    ELSE IF a.index <= 0 THEN "ValueError"
    ELSE IF a.name \notin PropertyNames THEN "ValueError"
    ELSE IF ~a.has_prop /\ a.name \notin WAVEFUNCTION_PROPERTIES \cup {"geometry"}
    THEN "KeyError"
    ELSE "none"

\* The test sees a message only behind another one.
HasMessageBehind(q) == Len(q) > 1

\* Line 814: the test that guards the pop.
HasMessage(q) == Len(q) > 0

\* pop() instead of pop(0): the newest message.
QueuePopNewest(q) == [msg |-> q[Len(q)], rest |-> SubSeq(q, 1, Len(q) - 1)]

\* Line 815: pop(0), the message taken and the queue left.
QueuePop(q) == [msg |-> Head(q), rest |-> Tail(q)]

\* One sleep too many.
LoopEndsLate(i) == i = TIMEOUT + 1

\* Line 811: the loop ends once TIMEOUT sleeps went by.
LoopEnds(i) == i = TIMEOUT

\* The timeout raises instead of returning None.
TimeoutRaises == Ended("raise", "TimeoutError", 0)

\* Lines 819-821: what a call that found no message ends with.
TimeoutOutcome == Ended("timeout", "none", 0)

\* Lines 480-597, from the requests to the first sleep of the wait: fetch,
\* build, display and enter _process_callback_response; before are the
\* requests the call issued already, q is the queue at this point.
Dispatch(c, id, a, before, q) ==
    /\ IssueAll(before \o FetchReqs(a.fetch))
    /\ locals' = [locals EXCEPT ![c] = [id |-> id, args |-> a]]
    /\ IF BuildRaises(a) # "none"
       THEN /\ rpc' = [rpc EXCEPT ![c] = "idle"]
            /\ outcome' = [outcome EXCEPT
                    ![c] = Ended("raise", BuildRaises(a), 0)]
            /\ raised' = BuildRaises(a)
            /\ UNCHANGED <<dispatched, inBrowser, tick, seenAt>>
       ELSE /\ rpc' = [rpc EXCEPT ![c] = "await"]
            /\ dispatched' = JavascriptString(a.name, a.index, a.opts)
            /\ inBrowser' = inBrowser \cup {[req |-> id, port |-> callback_port]}
            /\ tick' = [tick EXCEPT ![c] = 0]
            /\ seenAt' = [seenAt EXCEPT ![c] = IF q # <<>> THEN 0 ELSE NoTick]
            /\ outcome' = [outcome EXCEPT ![c] = NoOutcome]
            /\ UNCHANGED raised

\* display_job_property up to its first await: _check_ipython, the
\* injection, and then either the suspension in serve() (no listener yet)
\* or the dispatch.  overlap allows the call while another one is under way.
StartRender(c, a, inj, port, overlap) ==
    /\ obj = "live" /\ transport
    /\ wpc \notin {"while", "for", "sleep"}
    /\ rpc[c] = "idle"
    /\ overlap \/ \A d \in Callers : rpc[d] = "idle"
    /\ calls < MaxCalls
    /\ calls' = calls + 1
    /\ touched' = TRUE
    /\ has_ipython' = HasIpythonAfter(inj)
    /\ init_javascript' = InitJavascriptAfter(inj)
    /\ versionChecks' = versionChecks + Len(InjectReqs)
    /\ pushes' = pushes + (IF Pushes(inj) THEN 1 ELSE 0)
    /\ IF InjectRaises(inj) # "none"
       THEN /\ IssueAll(InjectReqs)
            /\ outcome' = [outcome EXCEPT
                    ![c] = Ended("raise", InjectRaises(inj), 0)]
            /\ raised' = InjectRaises(inj)
            /\ locals' = [locals EXCEPT ![c] = [id |-> calls + 1, args |-> a]]
            /\ UNCHANGED <<rpc, callback_port, attrs, dispatched,
                           inBrowser, tick, seenAt, binding>>
       ELSE IF NeedsListener
       THEN /\ IssueAll(InjectReqs)
            /\ callback_port' = port
            /\ attrs' = attrs \cup {"callback_port"}
            /\ rpc' = [rpc EXCEPT ![c] = "bind"]
            /\ binding' = [binding EXCEPT ![c] = port]
            /\ locals' = [locals EXCEPT ![c] = [id |-> calls + 1, args |-> a]]
            /\ outcome' = [outcome EXCEPT ![c] = NoOutcome]
            /\ UNCHANGED <<raised, dispatched, inBrowser, tick, seenAt>>
       ELSE /\ Dispatch(c, calls + 1, a, InjectReqs, websocket_response_queue)
            /\ UNCHANGED <<callback_port, attrs, binding>>
    /\ UNCHANGED <<transport, obj, auth, callback_listener, issued,
                   websocket_response_queue, arrivals, version, listeners,
                   clientB, bound>>
    /\ UNCHANGED <<waitVars, utilVars>>

\* Lines 802-804 and on: serve() returns to the suspended call, which keeps
\* the listener, creates the queue and goes on to the dispatch; bind_ok is
\* whether the port could be bound.
ServeReturns(c, bind_ok) ==
    /\ rpc[c] = "bind"
    /\ binding' = [binding EXCEPT ![c] = 0]
    /\ IF bind_ok
       THEN /\ callback_listener' = "open"
            /\ listeners' = listeners + 1
            /\ bound' = bound \cup {binding[c]}
            /\ websocket_response_queue' = <<>>
            /\ attrs' = attrs \cup {"websocket_response_queue"}
            /\ Dispatch(c, locals[c].id, locals[c].args, <<>>, <<>>)
       ELSE /\ rpc' = [rpc EXCEPT ![c] = "idle"]
            /\ UNCHANGED locals
            /\ outcome' = [outcome EXCEPT
                    ![c] = Ended("raise", "OSError", 0)]
            /\ raised' = "OSError"
            /\ UNCHANGED <<callback_listener, websocket_response_queue, attrs,
                           reqLog, lastReq, dispatched, inBrowser, tick, seenAt,
                           listeners, bound>>
    /\ UNCHANGED <<has_ipython, transport, obj, auth, init_javascript, issued,
                   touched, callback_port, calls, arrivals, version,
                   versionChecks, pushes, clientB>>
    /\ UNCHANGED <<waitVars, utilVars>>

\* Lines 812-829: one sleep of the loop returns; the call pops and decodes a
\* message if there is one, gives up after the last sleep, or sleeps again.
Tick(c) ==
    /\ rpc[c] = "await"
    /\ LET i == tick[c] + 1
           q == websocket_response_queue
       IN
       IF HasMessage(q)
       THEN /\ websocket_response_queue' = QueuePop(q).rest
            /\ rpc' = [rpc EXCEPT ![c] = "idle"]
            /\ tick' = [tick EXCEPT ![c] = 0]
            /\ seenAt' = [seenAt EXCEPT ![c] = NoTick]
            /\ raised' = DecodeRaises(QueuePop(q).msg.kind)
            /\ outcome' = [outcome EXCEPT ![c] =
                    IF DecodeRaises(QueuePop(q).msg.kind) = "none"
                    THEN Ended("image", "none", QueuePop(q).msg.req)
                    ELSE Ended("raise", DecodeRaises(QueuePop(q).msg.kind),
                               QueuePop(q).msg.req)]
       ELSE IF LoopEnds(i)
       THEN /\ rpc' = [rpc EXCEPT ![c] = "idle"]
            /\ tick' = [tick EXCEPT ![c] = 0]
            /\ outcome' = [outcome EXCEPT ![c] = TimeoutOutcome]
            /\ raised' = TimeoutOutcome.exc
            /\ UNCHANGED <<websocket_response_queue, seenAt>>
       ELSE /\ tick' = [tick EXCEPT ![c] = i]
            /\ UNCHANGED <<websocket_response_queue, rpc, seenAt, outcome,
                           raised>>
    /\ UNCHANGED <<has_ipython, transport, obj, attrs, auth, init_javascript,
                   callback_listener, reqLog, lastReq, issued, touched,
                   callback_port, locals, dispatched, inBrowser, calls,
                   arrivals, version, versionChecks, pushes, listeners,
                   clientB, binding, bound>>
    /\ UNCHANGED <<waitVars, utilVars>>

\* Lines 796-798: _websocket_callback receives the answer to request m of
\* the display surface and appends it to the queue.
WebsocketCallback(m, kind) ==
    /\ m \in inBrowser
    /\ obj = "live"
    /\ callback_listener = "open"
    /\ m.port \in bound
    /\ inBrowser' = inBrowser \ {m}
    /\ arrivals' = arrivals + 1
    /\ websocket_response_queue' =
          Append(websocket_response_queue,
                 [req |-> m.req, kind |-> kind, seq |-> arrivals + 1])
    /\ seenAt' = [c \in Callers |->
                    IF rpc[c] = "await" /\ websocket_response_queue = <<>>
                    THEN tick[c] ELSE seenAt[c]]
    /\ UNCHANGED <<callback_port, rpc, locals, tick, outcome, dispatched,
                   calls, version, versionChecks, pushes, listeners,
                   clientB, binding, bound>>
    /\ UNCHANGED <<sessionVars, waitVars, utilVars>>

-----------------------------------------------------------------------------
(* A second client of the same process *)

\* Another WebMOREST object: whether it exists, the attributes __init__
\* gave it, its _init_javascript, and how its last render call got on:
\* "none" (no call yet), an exception, or "proceeds" (past line 475).
ClientB(o, at, ij, ended) ==
    [obj |-> o, attrs |-> at, init_javascript |-> ij, ended |-> ended]

NoClientB == ClientB("none", {}, FALSE, "none")

\* The flag of lines 5-9 is the module's: client B reads the same one.
CheckIpythonB == IF ~has_ipython THEN "NotImplementedError" ELSE "none"

\* WebMOREST.__init__ for client B, with a service that accepts the login.
ConstructB ==
    /\ clientB.obj = "none"
    /\ transport
    /\ clientB' = ClientB("live", InitAttrs, has_ipython, "none")
    /\ UNCHANGED <<sessionVars, waitVars, utilVars>>
    /\ UNCHANGED <<callback_port, websocket_response_queue, rpc, locals, tick,
                   seenAt, outcome, dispatched, inBrowser, calls, arrivals,
                   version, versionChecks, pushes, listeners, binding,
                   bound>>

\* Lines 471-475 of display_job_property on client B, whose service runs a
\* version with the render support and whose injection goes through; the
\* rest of B's call is left out.
RenderB ==
    /\ clientB.obj = "live"
    /\ clientB.ended # "NotImplementedError"
    /\ clientB' =
          IF CheckIpythonB # "none"
          THEN [clientB EXCEPT !.ended = CheckIpythonB]
          ELSE [clientB EXCEPT !.ended = "proceeds",
                               !.init_javascript = FALSE]
    /\ UNCHANGED <<sessionVars, waitVars, utilVars>>
    /\ UNCHANGED <<callback_port, websocket_response_queue, rpc, locals, tick,
                   seenAt, outcome, dispatched, inBrowser, calls, arrivals,
                   version, versionChecks, pushes, listeners, binding,
                   bound>>

-----------------------------------------------------------------------------
(* Specifications *)

\* No client yet: the module is imported, with or without IPython.
NoClient ==
    /\ has_ipython \in BOOLEAN
    /\ transport = TRUE
    /\ obj = "none"
    /\ attrs = {}
    /\ auth = NoAuth
    /\ init_javascript = FALSE
    /\ callback_listener = "None"
    /\ reqLog = <<>>
    /\ lastReq = NoReq
    /\ raised = "none"
    /\ issued = ""
    /\ touched = FALSE

\* A client right after a successful __init__.
FreshClient ==
    /\ has_ipython \in BOOLEAN
    /\ transport = TRUE
    /\ obj = "live"
    /\ attrs = InitAttrs
    /\ \E t \in Tokens : auth = SessionDoc(t) /\ issued = t
    /\ init_javascript = has_ipython
    /\ callback_listener = "None"
    /\ lastReq = Req("POST", "/sessions", Args({"username", "password"}))
    /\ reqLog = <<Abridged(lastReq)>>
    /\ raised = "none"
    /\ touched = FALSE

\* No wait_for_jobs call under way; the jobs are anywhere in their life.
NoWait ==
    /\ remote \in [Jobs -> StatusValues]
    /\ wpc = "idle"
    /\ job_numbers = <<>>
    /\ status = <<>>
    /\ done = FALSE
    /\ idx = 0
    /\ polled = <<>>

\* No render call made yet.
NoRender ==
    /\ callback_port = 0
    /\ websocket_response_queue = <<>>
    /\ rpc = [c \in Callers |-> "idle"]
    /\ locals = [c \in Callers |-> NoLocals]
    /\ tick = [c \in Callers |-> 0]
    /\ seenAt = [c \in Callers |-> NoTick]
    /\ outcome = [c \in Callers |-> NoOutcome]
    /\ dispatched = <<>>
    /\ inBrowser = {}
    /\ calls = 0
    /\ arrivals = 0
    /\ versionChecks = 0
    /\ pushes = 0
    /\ listeners = 0
    /\ clientB = NoClientB
    /\ binding = [c \in Callers |-> 0]
    /\ bound = {}

\* Nothing to decode.
NoUtil ==
    /\ image_bytes = <<>>
    /\ json_msg = NoMessage
    /\ decoded = NoResult
    /\ results = NoDocument
    /\ energy = NoEnergy
    /\ generated = NoGenerated

\* The session: construction, the REST calls, teardown.
Init ==
    /\ NoClient
    /\ NoWait /\ remote = [j \in Jobs |-> "queued"]
    /\ NoRender /\ version = MinMajorVersion
    /\ NoUtil

Next ==
    \/ \E net_ok \in BOOLEAN, cred_ok \in BOOLEAN, t \in Tokens :
          Construct(net_ok, cred_ok, t)
    \/ ReleaseTransport
    \/ \E revoke \in {"ok", "http_error", "conn_error"} : Del(revoke)
    \/ \E op \in PlainOps, ok \in BOOLEAN : PlainCall(op, ok)
    \/ \E op \in ParamOps, ok \in BOOLEAN : ParamCall(op, ok)
    \/ \E op \in JobListOps, n \in 0..2, ok \in BOOLEAN : JobListCall(op, n, ok)
    \/ \E kw \in KwargsChoices, ok \in BOOLEAN : SubmitJob(kw, ok)

Spec == Init /\ [][Next]_vars

\* The job lists a caller passes to wait_for_jobs.
JobLists == UNION {[1..n -> Jobs] : n \in 0..MaxJobs}

\* wait_for_jobs on a live client, the service moving the jobs on meanwhile.
InitWait ==
    /\ FreshClient /\ NoWait /\ NoRender /\ version = MinMajorVersion
    /\ NoUtil

WaiterStep ==
    \/ WhileTest
    \/ \E ok \in BOOLEAN : ForStep(ok)
    \/ EndRound
    \/ Wake

NextWait ==
    \/ \E js \in JobLists : WaitStart(js)
    \/ WaiterStep
    \/ \E j \in Jobs : ServiceStep(j)

\* The calling thread runs: a step of the call that can be taken is taken.
SpecWait == InitWait /\ [][NextWait]_vars /\ WF_vars(WaiterStep)

\* The property names, indices and answers tried for render calls.
RenderArgs ==
    { CallArgs(name, 1, DefaultOpts, "ok", TRUE) : name \in {"geometry", "esp"} }
    \cup { CallArgs("bogus", 1, DefaultOpts, "ok", TRUE),
           CallArgs("geometry", 0, DefaultOpts, "ok", TRUE),
           CallArgs("dipole_moment", 1, DefaultOpts, "ok", FALSE),
           CallArgs("geometry", 1, DefaultOpts, "geometry_fails", TRUE),
           CallArgs("geometry", 1, DefaultOpts, "results_fails", TRUE) }

\* The ways an injection may go.
Injections ==
    { Injection(TRUE, MinMajorVersion, TRUE),
      Injection(FALSE, MinMajorVersion, TRUE),
      Injection(TRUE, MinMajorVersion - 1, TRUE),
      Injection(FALSE, MinMajorVersion - 1, TRUE),
      Injection(TRUE, MinMajorVersion, FALSE) }

\* The major versions a service may run: the last one without the render
\* support and the first one with it.
Versions == {MinMajorVersion - 1, MinMajorVersion}

\* The ways an injection may go with the service at hand.
InjectionsHere == {inj \in Injections : inj.major = version}

\* Under the single-flight discipline the callers take turns.
NextCaller == (calls % Cardinality(Callers)) + 1

\* The render bridge: construction, render calls one at a time (the callers
\* keep to the single-flight discipline), the listener's callback, teardown.
InitRender ==
    /\ NoClient
    /\ NoWait /\ remote = [j \in Jobs |-> "complete"]
    /\ NoRender /\ version \in Versions
    /\ NoUtil

NextRender ==
    \/ \E net_ok \in BOOLEAN, cred_ok \in BOOLEAN, t \in {"t1"} :
          Construct(net_ok, cred_ok, t)
    \/ \E c \in {NextCaller}, a \in RenderArgs, port \in Ports,
          inj \in InjectionsHere : StartRender(c, a, inj, port, FALSE)
    \/ \E c \in Callers, bind_ok \in BOOLEAN : ServeReturns(c, bind_ok)
    \/ \E c \in Callers : Tick(c)
    \/ \E m \in inBrowser, kind \in {"png", "nocomma"} : WebsocketCallback(m, kind)
    \/ \E revoke \in {"ok", "conn_error"} : Del(revoke)

SpecRender == InitRender /\ [][NextRender]_vars

\* The arguments tried for client A's render calls next to client B.
PlainRenderArgs == {CallArgs("geometry", 1, DefaultOpts, "ok", TRUE)}

\* Two clients of one process: client A with its render calls, client B
\* constructed and used at any time in between.
NextTwoClients ==
    \/ \E t \in {"t1"} : Construct(TRUE, TRUE, t)
    \/ \E c \in Callers, a \in PlainRenderArgs, port \in {50001},
          inj \in InjectionsHere : StartRender(c, a, inj, port, FALSE)
    \/ \E c \in Callers : ServeReturns(c, TRUE)
    \/ \E c \in Callers : Tick(c)
    \/ \E m \in inBrowser : WebsocketCallback(m, "png")
    \/ ConstructB
    \/ RenderB

SpecTwoClients == InitRender /\ [][NextTwoClients]_vars

\* The decoding of one message: the display surface holds any screenshot
\* and sends it well-formed or not, and lines 823-829 decode what came.
InitDecode ==
    /\ NoClient
    /\ NoWait /\ remote = [j \in Jobs |-> "complete"]
    /\ NoRender /\ version = MinMajorVersion
    /\ image_bytes \in SeqsUpTo(Bytes, MaxLen)
    /\ json_msg = NoMessage
    /\ decoded = NoResult
    /\ results = NoDocument
    /\ energy = NoEnergy
    /\ generated = NoGenerated

NextDecode ==
    \/ \E prefix \in Prefixes : Encode(prefix)
    \/ \E kind \in MalformedKinds, prefix \in Prefixes : Malformed(kind, prefix)
    \/ DecodeStep

SpecDecode == InitDecode /\ [][NextDecode]_vars

\* The keyword arguments tried with a property: the ranges with the spectra,
\* proton_coupling with the proton spectrum.
OptsFor(name) ==
    { [proton_coupling |-> pc, x_range |-> xr, y_range |-> yr] :
        pc \in IF name = "hnmr_spectrum" THEN BOOLEAN ELSE {FALSE},
        xr \in IF EndsWithSpectrum(name) THEN BOOLEAN ELSE {FALSE},
        yr \in IF EndsWithSpectrum(name) THEN BOOLEAN ELSE {FALSE} }

\* Every supported property, with the first and a later index.
KindArgs ==
    UNION { { CallArgs(name, i, opts, "ok", TRUE) :
                i \in {1, 2}, opts \in OptsFor(name) } :
            name \in PropertyNames }

\* One caller rendering every supported property on a working set-up.
InitDispatch ==
    /\ NoClient
    /\ NoWait /\ remote = [j \in Jobs |-> "complete"]
    /\ NoRender /\ version = MinMajorVersion
    /\ NoUtil

NextDispatch ==
    \/ \E t \in {"t1"} : Construct(TRUE, TRUE, t)
    \/ \E a \in KindArgs :
          StartRender(1, a, Injection(TRUE, MinMajorVersion, TRUE), 50001, FALSE)
    \/ ServeReturns(1, TRUE)
    \/ Tick(1)
    \/ \E m \in inBrowser : WebsocketCallback(m, "png")

SpecDispatch == InitDispatch /\ [][NextDispatch]_vars

\* A call begins its wait before any call that waits already has slept
\* once: the overlapping calls tried are started within one second.
StartsTogether == \A d \in Callers : rpc[d] = "await" => tick[d] = 0

\* The sleeps of line 812 take one second each, so the calls that wait wake
\* up in turns, in the order in which they were started.
WakesInTurn(c) ==
    \A d \in Callers \ {c} :
        rpc[d] = "await" =>
            tick[d] = IF locals[d].id < locals[c].id THEN tick[c] + 1
                      ELSE tick[c]

\* Render calls on one client that do not keep to the single-flight
\* discipline: a caller may start its call while the other caller's call is
\* suspended in serve() or in the first sleep of its wait, one call for
\* each caller.  The port drawn is not the one in use, on which serve()
\* would fail.
NextOverlap ==
    \/ \E t \in {"t1"} : Construct(TRUE, TRUE, t)
    \/ \E c \in Callers, a \in PlainRenderArgs,
          port \in Ports \ {callback_port} :
          /\ StartsTogether
          /\ calls < Cardinality(Callers)
          /\ StartRender(c, a, Injection(TRUE, MinMajorVersion, TRUE), port, TRUE)
    \/ \E c \in Callers : StartsTogether /\ ServeReturns(c, TRUE)
    \/ \E c \in Callers : WakesInTurn(c) /\ Tick(c)
    \/ \E m \in inBrowser : WebsocketCallback(m, "png")

SpecOverlap == InitDispatch /\ [][NextOverlap]_vars

\* generate_input on a live client, with any mapping and any defaults.
InitGenerate ==
    /\ FreshClient
    /\ NoWait /\ remote = [j \in Jobs |-> "complete"]
    /\ NoRender /\ version = MinMajorVersion
    /\ image_bytes = <<>> /\ json_msg = NoMessage /\ decoded = NoResult
    /\ results = NoDocument /\ energy = NoEnergy
    /\ \E variables \in Dicts(VariableNames, {"c1", "c2"}),
          defaults \in Dicts(VariableNames, {"c1", "d1"}),
          auto_defaults \in BOOLEAN :
            generated = Generated(variables, defaults, auto_defaults, FALSE,
                                  {}, <<>>)

NextGenerate == \E ok \in BOOLEAN : GenerateInput(ok)

SpecGenerate == InitGenerate /\ [][NextGenerate]_vars

\* get_energy on any result document.
InitEnergy ==
    /\ NoClient
    /\ NoWait /\ remote = [j \in Jobs |-> "complete"]
    /\ NoRender /\ version = MinMajorVersion
    /\ image_bytes = <<>> /\ json_msg = NoMessage /\ decoded = NoResult
    /\ results \in Documents
    /\ energy = NoEnergy
    /\ generated = NoGenerated

NextEnergy == \E include_units \in BOOLEAN : GetEnergy(include_units)

SpecEnergy == InitEnergy /\ [][NextEnergy]_vars

-----------------------------------------------------------------------------
(* Properties of the session *)

\* C1: a client constructed with accepted credentials and torn down with
\* nothing in between has issued exactly two requests: POST /sessions and
\* then DELETE /sessions with the token, and no other.
OpenCloseRequests ==
    (obj = "deleted" /\ "auth" \in attrs /\ ~touched) =>
        reqLog = << [method |-> "POST", path |-> "/sessions", token |-> ""],
                    [method |-> "DELETE", path |-> "/sessions",
                     token |-> issued] >>

\* Witness of C1: such a client, torn down.
OpenCloseDone ==
    obj = "deleted" /\ "auth" \in attrs /\ ~touched /\ Len(reqLog) = 2

\* C2: teardown never raises, whatever the state it runs in.
TeardownNeverRaises == obj = "deleted" => raised = "none"

\* C3: the client holds the one token the credential exchange gave it, no
\* operation changes it, and every request after the exchange carries it.
EveryRequestCarriesToken ==
    /\ obj = "live" => auth = SessionDoc(issued)
    /\ \A i \in 2..Len(reqLog) : reqLog[i].token = issued
    /\ \/ (lastReq.method = "POST" /\ lastReq.path = "/sessions")
       \/ lastReq.token = issued

-----------------------------------------------------------------------------
(* Properties of wait_for_jobs *)

\* The two statuses that end the wait.
TerminalStatuses == {"complete", "failed"}

Supplied == Range(job_numbers)

Waiting == wpc \in {"while", "for", "sleep"}

\* The for loop has gone through the whole list: the round is over.
RoundOver == wpc = "for" /\ idx > Len(job_numbers)

AllObservedTerminal == \A j \in Supplied : status[j] \in TerminalStatuses

Distinct(seq) == \A i, k \in DOMAIN seq : seq[i] = seq[k] => i = k

\* C4: wait_for_jobs has returned only if every supplied job was observed
\* with status 'complete' or 'failed'.
ReturnsOnlyWhenAllTerminal == wpc = "returned" => AllObservedTerminal

\* Witness of C4: a call for two jobs has returned.
ReturnedForTwoJobs ==
    wpc = "returned" /\ Len(job_numbers) = 2 /\ Distinct(job_numbers)
    /\ \E j, k \in Supplied : status[j] = "complete" /\ status[k] = "failed"

\* C5: no step queries a job whose observed status is already 'complete'
\* or 'failed'.
NoQueryOnceTerminal ==
    [][\A j \in Supplied :
          status[j] \in TerminalStatuses => polled' # Append(polled, j)]_vars

\* Witness of C5: a round is over in which a job observed terminal before
\* was passed over while another one was queried.
RoundSkippedTerminalJob ==
    /\ RoundOver
    /\ \E j, k \in Supplied :
          /\ status[j] \in TerminalStatuses
          /\ j \notin Range(polled)
          /\ k \in Range(polled)

\* Every supplied job ends up terminal on the service and no query fails.
JobsFinish ==
    /\ <>[](\A j \in Supplied : remote[j] \in TerminalStatuses)
    /\ [](wpc # "raised")

\* C6 as stated: if the jobs finish, the call returns, and it does so at
\* the end of the first round after which all jobs were observed terminal.
ReturnsAfterFirstTerminalRound ==
    /\ [][RoundOver /\ AllObservedTerminal => wpc' = "while" /\ done']_wpc
    /\ [][wpc = "while" /\ done => wpc' = "returned"]_wpc
    /\ JobsFinish => [](Waiting => <>(wpc = "returned"))

\* C7: the call does not return while a supplied job's status on the
\* service is neither 'complete' nor 'failed'; every round queries each job
\* whose observed status is neither; and while such a job stays so and no
\* query fails, rounds that query it keep coming.
PollsForeverOnOtherStatus ==
    /\ [](wpc = "returned" => \A j \in Supplied : remote[j] \in TerminalStatuses)
    /\ [](RoundOver =>
            \A j \in Supplied :
                status[j] \notin TerminalStatuses => j \in Range(polled))
    /\ \A j \in Jobs :
          ([](remote[j] \notin TerminalStatuses) /\ [](wpc # "raised")) =>
              [](Waiting /\ j \in Supplied =>
                    <>(RoundOver /\ j \in Range(polled)))

\* Witness of C7: the call sleeps after a round in which a job showed a
\* status that differs from 'complete' in case only.
SleepsOnOtherCase ==
    wpc = "sleep" /\ \E j \in Supplied : status[j] = "Complete"

-----------------------------------------------------------------------------
(* Properties of the render wait *)

\* C8: a call that waits has slept fewer than TIMEOUT times and the queue
\* has held a message for less than one tick; a call ends its wait with the
\* timeout outcome only at tick TIMEOUT with no message there, and with the
\* image of a well-formed message at most one tick after it was queued.
RendezvousTiming ==
    /\ [](\A c \in Callers : rpc[c] = "await" =>
            /\ tick[c] < TIMEOUT
            /\ websocket_response_queue # <<>> => seenAt[c] = tick[c])
    /\ [][\A c \in Callers : rpc[c] = "await" /\ rpc'[c] = "idle" =>
            /\ outcome'[c].kind = "timeout" <=>
                    websocket_response_queue = <<>>
            /\ outcome'[c].kind = "timeout" =>
                    tick[c] + 1 = TIMEOUT /\ seenAt[c] = NoTick
            /\ (/\ websocket_response_queue # <<>>
                /\ Head(websocket_response_queue).kind = "png") =>
                    /\ outcome'[c].kind = "image"
                    /\ seenAt[c] \in 0..(TIMEOUT - 1)
                    /\ tick[c] + 1 <= seenAt[c] + 1]_vars

\* Witness of C8: one call has timed out and another is in its last second
\* with a well-formed message that arrived during that second.
TimedOutAndLastSecond ==
    \E c, d \in Callers :
        /\ outcome[c].kind = "timeout"
        /\ rpc[d] = "await" /\ tick[d] = TIMEOUT - 1
        /\ seenAt[d] = TIMEOUT - 1
        /\ websocket_response_queue # <<>>
        /\ Head(websocket_response_queue).kind = "png"

\* C9: the step that times out returns None without raising and changes
\* neither the client nor the listener nor the queue.
TimeoutIsSoft ==
    [][\A c \in Callers :
          (/\ rpc[c] = "await" /\ rpc'[c] = "idle"
           /\ websocket_response_queue = <<>>) =>
              /\ outcome'[c] = Ended("timeout", "none", 0)
              /\ raised' = "none"
              /\ obj = "live" /\ callback_listener = "open"
              /\ "websocket_response_queue" \in attrs
              /\ UNCHANGED <<obj, attrs, has_ipython, init_javascript,
                             callback_listener, callback_port,
                             websocket_response_queue, transport>>]_vars

\* Witness of C9: after one call timed out, a later call got an image.
ImageAfterTimeout ==
    \E c, d \in Callers :
        outcome[c].kind = "timeout" /\ outcome[d].kind = "image"

\* C10: the queue holds the messages in the order they arrived; a step
\* either leaves it, appends the message that arrived, or is a call taking
\* the oldest message and no other.
QueueIsFifo ==
    /\ [](\A i, k \in DOMAIN websocket_response_queue :
            i < k => websocket_response_queue[i].seq
                        < websocket_response_queue[k].seq)
    /\ [][\/ websocket_response_queue' = websocket_response_queue
          \/ /\ Len(websocket_response_queue')
                    = Len(websocket_response_queue) + 1
             /\ SubSeq(websocket_response_queue', 1,
                       Len(websocket_response_queue))
                    = websocket_response_queue
             /\ websocket_response_queue'[Len(websocket_response_queue')].seq
                    = arrivals'
             /\ arrivals' = arrivals + 1
          \/ /\ websocket_response_queue # <<>>
             /\ websocket_response_queue' = Tail(websocket_response_queue)
             /\ \E c \in Callers :
                   /\ rpc[c] = "await" /\ rpc'[c] = "idle"
                   /\ outcome'[c].req = Head(websocket_response_queue).req
                   /\ outcome'[c].kind \in {"image", "raise"}]_vars

\* Witness of C10: a call got its image while a newer message stayed queued.
TookOldestOfTwo ==
    \E c \in Callers :
        /\ outcome[c].kind = "image"
        /\ websocket_response_queue # <<>>
        /\ outcome[c].req < Head(websocket_response_queue).req

-----------------------------------------------------------------------------
(* Properties of the render bridge's set-up *)

\* A render call starts in this step.
RenderCallStarts == calls' = calls + 1

\* C11: with the service below the version floor, the render call that
\* learns it and every later one fail with the feature-unavailable error
\* without creating the listener, fetching, dispatching or waiting, and
\* once it is known the version is not asked for again.
FloorFailsFast ==
    [][(version < MinMajorVersion /\ RenderCallStarts /\ ~has_ipython') =>
          /\ raised' = "NotImplementedError"
          /\ \A c \in Callers : rpc'[c] = "idle"
          /\ UNCHANGED <<callback_port, callback_listener, dispatched,
                         inBrowser>>
          /\ lastReq'.path \in {lastReq.path, "/status"}
          /\ ~has_ipython => versionChecks' = versionChecks]_vars

\* C12: where IPython could be imported (client A got its render
\* attributes), a render call on client B, whose service supports the
\* feature, is never rejected with the feature-unavailable error, whatever
\* client A found out about its own service.
OtherClientNotRejected ==
    ~(clientB.ended = "NotImplementedError" /\ "init_javascript" \in attrs)

\* C13: the control code is pushed at most once per client; the push comes
\* with exactly one version query, and once it has gone through no render
\* call asks for the version or pushes again.
InjectsOnce ==
    /\ [](pushes <= 1)
    /\ [][pushes' # pushes =>
            pushes' = pushes + 1 /\ versionChecks' = versionChecks + 1]_vars
    /\ [][pushes = 1 =>
            pushes' = pushes /\ versionChecks' = versionChecks]_vars

\* Witness of C13: a second render call has delivered its image after the
\* first call's injection, with one query and one push in all.
SecondCallAfterInjection ==
    /\ pushes = 1 /\ versionChecks = 1
    /\ \E c \in Callers : outcome[c].kind = "image" /\ outcome[c].req = 2

\* C14: a client has at most one listener; it is created in a render call
\* and not before, and once it exists render calls keep the listener, its
\* port and the queue with what it holds.
OneListener ==
    /\ [](listeners <= 1)
    /\ [](listeners = 0 <=> callback_listener = "None")
    /\ [](calls = 0 => listeners = 0)
    /\ [][listeners' # listeners => \E c \in Callers : rpc[c] = "bind"]_vars
    /\ [][listeners = 1 =>
            /\ listeners' = 1
            /\ callback_port' = callback_port
            /\ callback_listener' \in {callback_listener, "closed"}
            /\ RenderCallStarts =>
                  websocket_response_queue' = websocket_response_queue]_vars

\* Witness of C14: a later call started on the listener of the first call
\* while a message was still queued.
LaterCallOnSameListener ==
    /\ listeners = 1 /\ calls >= 2
    /\ websocket_response_queue # <<>>
    /\ \E c \in Callers : rpc[c] = "await" /\ tick[c] = 0

\* Caller c's call runs in this step: it starts, or it resumes from serve().
CallRuns(c) ==
    \/ RenderCallStarts /\ locals'[c].id = calls'
    \/ rpc[c] = "bind" /\ rpc'[c] # "bind"

\* The property names display_job_property has a branch for.
SupportedNames ==
    { "geometry", "dipole_moment", "partial_charges", "vibrational_mode",
      "mo", "nao", "nho", "nbo", "esp", "nucleophilic", "electrophilic",
      "radical", "ir_spectrum", "raman_spectrum", "vcd_spectrum",
      "uvvis_spectrum", "hnmr_spectrum", "cnmr_spectrum" }

\* C15: a render call for a property name outside the supported set never
\* waits; the steps it runs in dispatch nothing and leave the queued
\* messages, and it ends with an exception, the ValueError of the property
\* check once its two fetches went through.
InvalidPropertyRejected ==
    /\ [](\A c \in Callers :
            rpc[c] = "await" => locals[c].args.name \in SupportedNames)
    /\ [][\A c \in Callers :
            (CallRuns(c) /\ locals'[c].args.name \notin SupportedNames) =>
                /\ dispatched' = dispatched
                /\ inBrowser' = inBrowser
                /\ \/ websocket_response_queue' = websocket_response_queue
                   \/ listeners' # listeners /\ websocket_response_queue' = <<>>
                /\ rpc'[c] \in {"idle", "bind"}
                /\ rpc'[c] = "idle" =>
                      /\ outcome'[c].kind = "raise"
                      /\ raised' = outcome'[c].exc
                      /\ (/\ lastReq' = Req("GET", "/jobs/%d/results", auth)
                          /\ lastReq' # lastReq
                          /\ locals'[c].args.fetch = "ok") =>
                            outcome'[c].exc = "ValueError"]_vars

\* Witness of C15: a call for an unsupported name ended with the ValueError
\* while a message was queued.
BogusRejected ==
    \E c \in Callers :
        /\ locals[c].args.name \notin SupportedNames
        /\ locals[c].args.fetch = "ok"
        /\ outcome[c] = Ended("raise", "ValueError", 0)
        /\ websocket_response_queue # <<>>

-----------------------------------------------------------------------------
(* Properties of the decoding *)

\* The messages the display surface sends for the screenshot it holds.
WellFormed ==
    json_msg \in {<<ImageMessage(prefix, image_bytes)>> : prefix \in Prefixes}

\* C16: a message whose imageURI is a metadata prefix, a comma and the
\* base64 text of the bytes b decodes without an exception into b exactly.
DecodeRoundTrip ==
    (WellFormed /\ decoded # NoResult) => decoded = Decoded("none", image_bytes)

\* A screenshot of the greatest length came back through a message with a
\* metadata prefix.
LongestDecoded ==
    /\ json_msg = <<ImageMessage(<<3, Colon, 29>>, image_bytes)>>
    /\ Len(image_bytes) = MaxLen
    /\ image_bytes[1] = 77
    /\ decoded = Decoded("none", image_bytes)

\* Base64 text: groups of four characters of the alphabet, the last group
\* ending with at most two '='.
ValidBase64(s) ==
    /\ Len(s) % 4 = 0
    /\ \A i \in DOMAIN s :
          \/ s[i] \in Sextets
          \/ s[i] = Pad /\ i >= Len(s) - 1 /\ s[Len(s)] = Pad

\* A message that is JSON, has imageURI, and whose imageURI has a comma
\* followed by base64 text.
WellFormedMessage(m) ==
    /\ m.is_json
    /\ m.has_key
    /\ Commas(m.uri) # {}
    /\ ValidBase64(SubSeq(m.uri, Min(Commas(m.uri)) + 1, Len(m.uri)))

\* C17: a malformed message (not JSON, no imageURI, no comma, or a payload
\* that is not base64) never decodes into an image: decoding it ends with
\* an exception.
MalformedNeverImage ==
    (json_msg # NoMessage /\ ~WellFormedMessage(json_msg[1]) /\ decoded # NoResult)
        => decoded.exc # "none"

-----------------------------------------------------------------------------
(* Properties of get_energy *)

\* The keys of the document among base, r+base, u+base, ro+base, by their
\* place in that order.
PresentKeys ==
    {i \in DOMAIN KeyPrefixes :
        \E e \in results.properties :
            e.key = KeyPrefixes[i] \o MethodEnergyName(results.name)}

\* C18: get_energy returns the value under the first key present in the
\* order base, r+base, u+base, ro+base, and fails with an error naming base
\* when none is present.
FirstPresentKeyWins ==
    (results.has_name /\ energy # NoEnergy) =>
        IF PresentKeys = {}
        THEN energy.exc = "RuntimeError"
             /\ energy.names = MethodEnergyName(results.name)
        ELSE energy.exc = "none"
             /\ \E e \in results.properties :
                   /\ e.key = KeyPrefixes[Min(PresentKeys)]
                                 \o MethodEnergyName(results.name)
                   /\ e.value = energy.value

-----------------------------------------------------------------------------
(* Properties of the dispatched command *)

\* The kinds the remote renderer renders asynchronously.
AsyncKinds ==
    {"mo", "nao", "nho", "nbo", "esp", "nucleophilic", "electrophilic",
     "radical"}

IsScreenshot(cmd) ==
    cmd.fn \in {"_display_moledit_screenshot", "_display_datagrapher_screenshot"}

Screenshots(cmds) == {i \in DOMAIN cmds : IsScreenshot(cmds[i])}

\* The command of a waiting call: no screenshot command for the kinds
\* rendered asynchronously, one screenshot command, the last command, for
\* the others.
ScreenshotByKind ==
    \A c \in Callers :
        rpc[c] = "await" =>
            IF locals[c].args.name \in AsyncKinds
            THEN Screenshots(dispatched) = {}
            ELSE Screenshots(dispatched) = {Len(dispatched)}

\* A call that dispatched its command takes one message off the queue when
\* it ends with an image, and none while it goes on waiting or times out.
TakesOneMessage ==
    \A c \in Callers :
        rpc[c] = "await" =>
            /\ (rpc'[c] = "idle" /\ outcome'[c].kind = "image")
                  => Len(websocket_response_queue')
                        = Len(websocket_response_queue) - 1
            /\ (rpc'[c] = "await" \/ outcome'[c].kind # "image")
                  => Len(websocket_response_queue')
                        >= Len(websocket_response_queue)

\* C19: for mo, nao, nho, nbo, esp, nucleophilic, electrophilic and radical
\* the dispatched command has no screenshot command; for every other
\* supported kind it has exactly one, as its last command; in both cases
\* the call then waits for exactly one message.
DispatchByKind == []ScreenshotByKind /\ [][TakesOneMessage]_vars

\* A call for a kind rendered asynchronously dispatched a command without
\* a screenshot command and got its image from the renderer's callback.
AsyncKindGotImage ==
    /\ locals[1].args.name = "esp"
    /\ Screenshots(dispatched) = {}
    /\ rpc[1] = "idle"
    /\ outcome[1].kind = "image"
    /\ calls = 2

-----------------------------------------------------------------------------
(* Properties of the listener's teardown *)

\* C20: a client that created a callback listener and was torn down has
\* its listener shut down, whatever the token-revoke request ended with.
TeardownClosesListener ==
    (obj = "deleted" /\ listeners > 0) => callback_listener = "closed"

-----------------------------------------------------------------------------
(* Properties of generate_input *)

\* The value the text sent holds for the key, as a set (empty when the key
\* is not sent).
SentValues(key) == {m.value : m \in {n \in generated.sent : n.key = key}}

\* C21: with auto_defaults every template variable absent from the
\* caller's mapping is sent with the template's default and every key of
\* the caller with the caller's value; without auto_defaults exactly the
\* caller's mapping is sent; the caller's mapping is left as it was.
SendsAmendedVariables ==
    generated.done =>
        /\ \A k \in DOMAIN generated.variables :
              SentValues(k) = {generated.variables[k]}
        /\ \A k \in VariableNames \ DOMAIN generated.variables :
              SentValues(k) =
                 IF generated.auto_defaults /\ k \in DOMAIN generated.defaults
                 THEN {generated.defaults[k]} ELSE {}
        /\ generated.after = generated.variables

\* A call with auto_defaults sent one value of the caller, that differs
\* from the template's default for it, and one default.
SentOwnValueAndDefault ==
    /\ generated.done /\ generated.auto_defaults
    /\ DOMAIN generated.variables = {"basis"}
    /\ DOMAIN generated.defaults = {"basis", "charge"}
    /\ generated.variables["basis"] # generated.defaults["basis"]
    /\ SentValues("basis") = {generated.variables["basis"]}
    /\ SentValues("charge") = {generated.defaults["charge"]}

-----------------------------------------------------------------------------
(* Properties of the render bridge under retries and overlapping calls *)

\* C22: with render calls one after the other, the image a call returns
\* answers that call's own request, also when an earlier call timed out
\* and its response came late.
ReturnsOwnResponse ==
    \A c \in Callers :
        outcome[c].kind = "image" => outcome[c].req = locals[c].id

\* C23: a render call that starts while another call of the client is
\* suspended inside the creation of the listener binds no second listener.
NoSecondListener == listeners <= 1

\* C24: a render call creates the listener, dispatches or waits only on a
\* client whose injection went through.
BridgeStatesInOrder ==
    /\ listeners > 0 => pushes > 0
    /\ \A c \in Callers : rpc[c] \in {"bind", "await"} => pushes > 0

\* Caller c's wait takes a message in this step.
Takes(c) ==
    /\ rpc[c] = "await" /\ rpc'[c] = "idle"
    /\ outcome'[c].kind \in {"image", "raise"}

\* C25: every message the listener received stays in the queue until a
\* waiting call takes it; creating the listener discards none.
ReceivedMessagesKept ==
    [][Len(websocket_response_queue') < Len(websocket_response_queue) =>
          \E c \in Callers : Takes(c)]_vars

\* Caller c's wait runs in this step: it wakes from a sleep of line 812.
Polls(c) ==
    /\ rpc[c] = "await"
    /\ tick'[c] # tick[c] \/ rpc'[c] # rpc[c]

\* C26: with the listener's callback appending and several calls polling,
\* a call takes a message only from a queue that holds one, takes the
\* oldest and removes it in the same step, so that no other call gets it;
\* a poll that finds a message takes it, a poll that finds none leaves the
\* queue alone, and a message is in the queue once.
PollsAtomically ==
    /\ [](\A i, k \in DOMAIN websocket_response_queue :
            i # k => websocket_response_queue[i].seq
                        # websocket_response_queue[k].seq)
    /\ [][\A c \in Callers :
            Polls(c) =>
                IF websocket_response_queue # <<>>
                THEN /\ Takes(c)
                     /\ outcome'[c].req = Head(websocket_response_queue).req
                     /\ websocket_response_queue'
                            = Tail(websocket_response_queue)
                     /\ \A d \in Callers \ {c} : ~Polls(d)
                ELSE /\ ~Takes(c)
                     /\ websocket_response_queue' = <<>>]_vars

\* Two calls polled at once: one took the only message, the other found
\* the queue empty and went on waiting.
OneOfTwoWaitersTook ==
    \E c, d \in Callers :
        /\ c # d
        /\ rpc[c] = "idle" /\ outcome[c].kind = "image"
        /\ rpc[d] = "await" /\ tick[d] > 0
        /\ arrivals = 1
        /\ websocket_response_queue = <<>>

-----------------------------------------------------------------------------
(* Properties of the sleeps of wait_for_jobs *)

\* C27: wait_for_jobs sleeps only after a round that queried a job and left
\* a supplied job not observed terminal: not before the first round, not
\* after the round in which all jobs were observed terminal, and never
\* with an empty list.
SleepsOnlyBetweenRounds ==
    wpc = "sleep" =>
        /\ idx > Len(job_numbers)
        /\ polled # <<>>
        /\ ~AllObservedTerminal

-----------------------------------------------------------------------------
(* Properties of the index sent with a wavefunction command *)

\* The indexes of the _set_moledit_wavefunction commands among cmds.
IndexesSent(cmds) ==
    { cmds[i].index :
        i \in {j \in DOMAIN cmds : cmds[j].fn = "_set_moledit_wavefunction"} }

\* C28 as stated: for every kind whose screenshot is left to the renderer
\* (mo, nao, nho, nbo, esp, nucleophilic, electrophilic, radical) the index
\* sent to the renderer is the fixed value 0, whatever property_index the
\* caller gave.
DeferredKindsSendFixedIndex ==
    \A c \in Callers :
        (rpc[c] = "await" /\ locals[c].args.name \in AsyncKinds)
            => IndexesSent(dispatched) = {0}

\* C28: of the kinds whose screenshot is left to the renderer, the surfaces
\* (esp, nucleophilic, electrophilic, radical) are sent with the fixed index
\* 0 whatever property_index the caller gave, and the orbitals (mo, nao,
\* nho, nbo) are sent with the caller's property_index.
SurfacesSendFixedIndex ==
    \A c \in Callers :
        (rpc[c] = "await" /\ locals[c].args.name \in AsyncKinds)
            => IndexesSent(dispatched)
                  = IF locals[c].args.name
                          \in {"esp", "nucleophilic", "electrophilic", "radical"}
                    THEN {0}
                    ELSE {locals[c].args.index}

\* A surface asked for with index 2 was dispatched with index 0.
SurfaceSentWithIndexZero ==
    /\ rpc[1] = "await"
    /\ locals[1].args.name = "esp"
    /\ locals[1].args.index = 2
    /\ IndexesSent(dispatched) = {0}

-----------------------------------------------------------------------------
(* Properties of a failed construction *)

\* The one request of an instance whose credential exchange failed: the
\* login itself, which carries no token.
LoginOnly ==
    reqLog = <<Abridged(Req("POST", "/sessions", Args({"username", "password"})))>>

\* The instance's construction failed; it may have been torn down since.
ConstructionFailed == obj \in {"broken", "deleted"} /\ "auth" \notin attrs

\* Right after the failed exchange: __init__ raised and stored nothing.
FailedStoresNothing ==
    obj = "broken" =>
        /\ attrs = {}
        /\ auth = NoAuth
        /\ issued = ""
        /\ callback_listener = "None"

\* From the failed exchange on nothing is requested and nothing is stored,
\* whatever step follows, the teardown included.
FailedStaysSilent ==
    obj = "broken" =>
        /\ reqLog' = reqLog
        /\ lastReq' = lastReq
        /\ attrs' = attrs
        /\ auth' = auth

\* C29: when POST /sessions fails (rejected credentials or unreachable
\* endpoint) __init__ raises, no token and no attribute is stored, and the
\* login stays the only request ever issued for the instance: no
\* token-revoke request and no other authenticated request follows, not
\* from its teardown either.
FailedConstructionIssuesNothing ==
    /\ [](ConstructionFailed => LoginOnly)
    /\ []FailedStoresNothing
    /\ [][FailedStaysSilent]_vars
    /\ [][(obj = "none" /\ obj' = "broken")
            => raised' \in {"HTTPError", "ConnectionError"}]_vars

\* An instance whose credential exchange failed was torn down with
\* requests.delete present: the teardown stopped at line 57 and the login
\* is the only request issued.
FailedInstanceTornDown ==
    /\ obj = "deleted"
    /\ attrs = {}
    /\ transport
    /\ raised = "AttributeError"
    /\ LoginOnly

=============================================================================
